---------------------------- MODULE Spec2Model ----------------------------
(***************************************************************************)
(* A model of simptui's library (src/src/lib.rs): the Equation record and  *)
(* its name sanitization, the two source parsers (read_csv_file and        *)
(* parse_markdown) with their name de-duplication, and the render pipeline *)
(* (Equation::render driven by render_equations).                          *)
(*                                                                         *)
(* Strings are sequences of one-character strings, so that sanitization,   *)
(* trimming, splitting, number formatting and the regular expression of    *)
(* parse_markdown are computed character by character as the code does.    *)
(*                                                                         *)
(* The terminal viewer of src/src/main.rs (App::new, App::handle_input) is *)
(* modelled as a fourth specification, SpecView.                           *)
(*                                                                         *)
(* The specifications share the variables:                                 *)
(*   SpecNew    - Equation::new applied to bounded raw names               *)
(*   SpecParse  - one parse pass of read_csv_file or parse_markdown        *)
(*   SpecRender - render_equations (or one direct Equation::render call)   *)
(*                against a nondeterministic file system and toolchain     *)
(*   SpecView   - the key loop of the viewer over a folder of three files  *)
(***************************************************************************)
EXTENDS Integers, Sequences, FiniteSets, TLC

VARIABLES
    \* --- Equation::new ---
    newArgs,        \* the arguments of one Equation::new call
    newEq,          \* the Equation it returned (NoEq before the call)
    \* --- one parse pass ---
    source,         \* the input: [kind |-> "csv", lines] or [kind |-> "md", content, blocks]
    cursor,         \* csv: index of the next line; md: offset where the next regex search starts
    name_count,     \* HashMap<String, usize> of the pass (a function on the keys seen)
    equations,      \* Vec<Equation> built so far
    bases,          \* ghost: the base_name computed for each pushed equation
    parsePc,        \* "run" while the loop runs, "done" once the parser returned
    \* --- rendering ---
    caller,         \* "render_equations", or "render" for one direct Equation::render call
    batch,          \* the equations slice given to render_equations
    queue,          \* indices of batch whose render is called, in order
    idx,            \* position in queue of the current render call
    pc,             \* position inside the current call
    outputDir,      \* [exists, creatable, files]: the output directory
    toolchain,      \* [rasterizer |-> BOOLEAN]: whether pdftocairo can be started
    delete_intermediates,
    log,            \* ghost: externally visible steps, in order
    result,         \* "running", "ok" or "err": what the driver returned
    bar,            \* [len, pos]: the progress bar of render_equations
    \* --- the terminal viewer (src/src/main.rs) ---
    app             \* struct App, with the outcome of its arithmetic

newVars    == <<newArgs, newEq>>
parseVars  == <<source, cursor, name_count, equations, bases, parsePc>>
renderVars == <<caller, batch, queue, idx, pc, outputDir, toolchain, delete_intermediates,
                log, result, bar>>
viewVars   == <<app>>
vars       == <<newVars, parseVars, renderVars, viewVars>>

-----------------------------------------------------------------------------
(* Bounds of the model *)

MaxNameLen == 3     \* longest raw name given to Equation::new in SpecNew
MaxRows    == 3     \* data rows of a CSV table
MaxBlocks  == 2     \* equation blocks of a Markdown document
MaxEqs     == 3     \* equations of a rendered batch

-----------------------------------------------------------------------------
(* Characters and strings *)

Lower  == {"a","b","c","d","e","f","g","h","i","j","k","l","m",
           "n","o","p","q","r","s","t","u","v","w","x","y","z"}
Upper  == {"A","B","C","D","E","F","G","H","I","J","K","L","M",
           "N","O","P","Q","R","S","T","U","V","W","X","Y","Z"}
Digit  == {"0","1","2","3","4","5","6","7","8","9"}

\* The complement of the class of the regex r"[^a-zA-Z0-9_.]".
RegexKeptClass == Lower \cup Upper \cup Digit \cup {"_", "."}

DefaultName ==
    <<"d","e","f","a","u","l","t","_","e","q","u","a","t","i","o","n">>

\* char::is_whitespace, on the characters the model uses
WhiteSpace == {" ", "\t", "\n", "\r"}

RECURSIVE TrimStart(_)
TrimStart(s) ==
    IF s # <<>> /\ Head(s) \in WhiteSpace THEN TrimStart(Tail(s)) ELSE s

RECURSIVE TrimEnd(_)
TrimEnd(s) ==
    IF s # <<>> /\ s[Len(s)] \in WhiteSpace
    THEN TrimEnd(SubSeq(s, 1, Len(s) - 1)) ELSE s

\* str::trim
Trim(s) == TrimEnd(TrimStart(s))

DigitChar(d) ==
    CASE d = 0 -> "0" [] d = 1 -> "1" [] d = 2 -> "2" [] d = 3 -> "3"
      [] d = 4 -> "4" [] d = 5 -> "5" [] d = 6 -> "6" [] d = 7 -> "7"
      [] d = 8 -> "8" [] d = 9 -> "9"

\* Display of a usize: its decimal digits
RECURSIVE FormatUsize(_)
FormatUsize(n) ==
    IF n < 10 THEN <<DigitChar(n)>>
    ELSE FormatUsize(n \div 10) \o <<DigitChar(n % 10)>>

\* format!("{}_{}", base_name, count)
FormatSuffixed(base_name, count) == base_name \o <<"_">> \o FormatUsize(count)

-----------------------------------------------------------------------------
(* Equation::new and sanitize_filename *)

\* Regex::replace_all(name, "_") with the class above
ReplaceAll(name) ==
    [i \in 1..Len(name) |-> IF name[i] \in RegexKeptClass THEN name[i] ELSE "_"]

\* A slip of replace for replace_all: only the first match is replaced.
ReplaceFirstOnly(name) ==
    [i \in 1..Len(name) |->
        IF name[i] \notin RegexKeptClass
           /\ \A j \in 1..(i-1) : name[j] \in RegexKeptClass
        THEN "_" ELSE name[i]]

\* sanitize_filename without its is_empty fallback
sanitize_no_fallback(name) == ReplaceAll(name)

\* sanitize_filename keeping the disallowed characters after the first
sanitize_first_only(name) ==
    LET sanitized == ReplaceFirstOnly(name)
    IN  IF sanitized = <<>> THEN DefaultName ELSE sanitized

sanitize_filename(name) ==
    LET sanitized == ReplaceAll(name)
    IN  IF sanitized = <<>> THEN DefaultName ELSE sanitized

EquationNew(active, name, body) ==
    [active |-> active, name |-> sanitize_filename(name), body |-> body]

NoEq == [active |-> FALSE, name |-> <<>>, body |-> <<>>]

-----------------------------------------------------------------------------
(* The name de-duplication shared by both parsers *)

\* name_count.entry(name).or_insert(0), read
CountOf(nc, base_name) == IF base_name \in DOMAIN nc THEN nc[base_name] ELSE 0

RECURSIVE SumCounts(_, _)
SumCounts(nc, keys) ==
    IF keys = {} THEN 0
    ELSE LET k == CHOOSE x \in keys : TRUE
         IN  nc[k] + SumCounts(nc, keys \ {k})

\* A slip: one counter shared by all the names of the pass.
DedupNameSharedCounter(nc, base_name) ==
    LET count == SumCounts(nc, DOMAIN nc)
    IN  IF count > 0 THEN FormatSuffixed(base_name, count) ELSE base_name

\* let mut name = base_name; if *count > 0 { name = format!("{}_{}", ..) }
DedupName(nc, base_name) ==
    LET count == CountOf(nc, base_name)
    IN  IF count > 0 THEN FormatSuffixed(base_name, count) ELSE base_name

\* *count += 1
DedupBump(nc, base_name) ==
    [k \in DOMAIN nc \cup {base_name} |->
        IF k = base_name THEN CountOf(nc, base_name) + 1 ELSE nc[k]]

-----------------------------------------------------------------------------
(* read_csv_file *)

UpperSeq == <<"A","B","C","D","E","F","G","H","I","J","K","L","M",
              "N","O","P","Q","R","S","T","U","V","W","X","Y","Z">>
LowerSeq == <<"a","b","c","d","e","f","g","h","i","j","k","l","m",
              "n","o","p","q","r","s","t","u","v","w","x","y","z">>

AsciiLower(c) ==
    IF c \in Upper
    THEN LowerSeq[CHOOSE i \in 1..Len(UpperSeq) : UpperSeq[i] = c]
    ELSE c

\* str::eq_ignore_ascii_case
EqIgnoreAsciiCase(s, t) ==
    /\ Len(s) = Len(t)
    /\ \A i \in 1..Len(s) : AsciiLower(s[i]) = AsciiLower(t[i])

\* line.split(','): always at least one part
RECURSIVE SplitComma(_)
SplitComma(line) ==
    IF \E i \in 1..Len(line) : line[i] = ","
    THEN LET i == CHOOSE k \in 1..Len(line) :
                    line[k] = "," /\ \A j \in 1..(k-1) : line[j] # ","
         IN  <<SubSeq(line, 1, i - 1)>> \o SplitComma(SubSeq(line, i + 1, Len(line)))
    ELSE <<line>>

Yes == <<"y","e","s">>

\* a case-sensitive comparison in place of eq_ignore_ascii_case
CsvActiveCaseSensitive(parts) == Trim(parts[1]) = Yes

CsvActive(parts)   == EqIgnoreAsciiCase(Trim(parts[1]), Yes)
CsvBody(parts)     == Trim(parts[2])
CsvBaseName(parts) == IF Trim(parts[3]) = <<>> THEN DefaultName ELSE Trim(parts[3])

\* One iteration of the loop over reader.lines().skip(1)
ParseCsvLine ==
    /\ parsePc = "run" /\ source.kind = "csv"
    /\ cursor <= Len(source.lines)
    /\ LET parts == SplitComma(source.lines[cursor])
       IN  IF Len(parts) >= 3
           THEN LET base_name == CsvBaseName(parts)
                    name      == DedupName(name_count, base_name)
                IN  /\ name_count' = DedupBump(name_count, base_name)
                    /\ equations' = Append(equations,
                            EquationNew(CsvActive(parts), name, CsvBody(parts)))
                    /\ bases' = Append(bases, base_name)
           ELSE UNCHANGED <<name_count, equations, bases>>
    /\ cursor' = cursor + 1
    /\ UNCHANGED <<source, parsePc, newVars, renderVars, viewVars>>

\* Ok(equations) once the lines are exhausted
ParseCsvReturn ==
    /\ parsePc = "run" /\ source.kind = "csv"
    /\ cursor > Len(source.lines)
    /\ parsePc' = "done"
    /\ UNCHANGED <<source, cursor, name_count, equations, bases, newVars, renderVars, viewVars>>

-----------------------------------------------------------------------------
(* parse_markdown: the regular expression                                  *)
(*   (?s)(%%(yes|no)?%%)?[\n\r]*\$\$[\n\r]*(.*?)\$\$[\n\r]*(%%(.*?)%%)?     *)
(* matched leftmost-first, as the regex crate does.                        *)

PP == <<"%","%">>
DD == <<"$","$">>
No == <<"n","o">>

\* the literal lit occurs in s at offset p (1-based)
LitAt(s, p, lit) ==
    /\ p >= 1 /\ p + Len(lit) - 1 <= Len(s)
    /\ \A i \in 1..Len(lit) : s[p + i - 1] = lit[i]

\* [\n\r]* from p, greedy: the offset after the run
RECURSIVE SkipNewlines(_, _)
SkipNewlines(s, p) ==
    IF p <= Len(s) /\ s[p] \in {"\n", "\r"} THEN SkipNewlines(s, p + 1) ELSE p

\* .*? followed by lit: the first offset >= p where lit occurs, 0 if none
FindLit(s, p, lit) ==
    IF \E q \in p..Len(s) : LitAt(s, q, lit)
    THEN CHOOSE q \in p..Len(s) :
            LitAt(s, q, lit) /\ \A r \in p..(q-1) : ~LitAt(s, r, lit)
    ELSE 0

NoMatch == [ok |-> FALSE, start |-> 0, end |-> 0, lead |-> "none",
            body |-> <<>>, hasName |-> FALSE, name |-> <<>>]

\* [\n\r]*\$\$[\n\r]*(.*?)\$\$[\n\r]*(%%(.*?)%%)? from offset q, the match
\* having begun at p with group 2 = lead
MatchRest(s, p, q, lead) ==
    LET q1 == SkipNewlines(s, q)
    IN  IF ~LitAt(s, q1, DD) THEN NoMatch
        ELSE
        LET q2 == SkipNewlines(s, q1 + 2)
            c  == FindLit(s, q2, DD)
        IN  IF c = 0 THEN NoMatch
            ELSE
            LET q3 == SkipNewlines(s, c + 2)
                e  == IF LitAt(s, q3, PP) THEN FindLit(s, q3 + 2, PP) ELSE 0
            IN  [ok |-> TRUE, start |-> p,
                 end |-> IF e # 0 THEN e + 2 ELSE q3,
                 lead |-> lead,
                 body |-> SubSeq(s, q2, c - 1),
                 hasName |-> e # 0,
                 name |-> IF e # 0 THEN SubSeq(s, q3 + 2, e - 1) ELSE <<>>]

\* The whole expression anchored at p: the optional leading group is tried
\* first (greedy), then skipped.
MatchAt(s, p) ==
    LET withLead ==
            IF LitAt(s, p, PP \o Yes \o PP) THEN MatchRest(s, p, p + 7, "yes")
            ELSE IF LitAt(s, p, PP \o No \o PP) THEN MatchRest(s, p, p + 6, "no")
            ELSE IF LitAt(s, p, PP \o PP) THEN MatchRest(s, p, p + 4, "none")
            ELSE NoMatch
    IN  IF withLead.ok THEN withLead ELSE MatchRest(s, p, p, "none")

\* The next match of captures_iter: the leftmost offset >= from that matches
NextCapture(s, from) ==
    IF \E p \in from..Len(s) : MatchAt(s, p).ok
    THEN MatchAt(s, CHOOSE p \in from..Len(s) :
                        MatchAt(s, p).ok /\ \A r \in from..(p-1) : ~MatchAt(s, r).ok)
    ELSE NoMatch

MdActive(cap)   == cap.lead = "none" \/ cap.lead = "yes"
MdBody(cap)     == Trim(cap.body)
MdBaseName(cap) == IF cap.hasName THEN cap.name ELSE DefaultName

\* One iteration of the loop over re.captures_iter(content)
ParseMdCapture ==
    /\ parsePc = "run" /\ source.kind = "md"
    /\ LET cap == NextCapture(source.content, cursor)
       IN  /\ cap.ok
           /\ LET base_name == MdBaseName(cap)
                  name      == DedupName(name_count, base_name)
              IN  /\ name_count' = DedupBump(name_count, base_name)
                  /\ equations' = Append(equations,
                            EquationNew(MdActive(cap), name, MdBody(cap)))
                  /\ bases' = Append(bases, base_name)
           /\ cursor' = cap.end
    /\ UNCHANGED <<source, parsePc, newVars, renderVars, viewVars>>

\* return equations once no further match exists
ParseMdReturn ==
    /\ parsePc = "run" /\ source.kind = "md"
    /\ ~NextCapture(source.content, cursor).ok
    /\ parsePc' = "done"
    /\ UNCHANGED <<source, cursor, name_count, equations, bases, newVars, renderVars, viewVars>>

-----------------------------------------------------------------------------
(* Equation::render and render_equations                                   *)
(*                                                                         *)
(* The file system and the two external programs are the environment: a    *)
(* write, a process start and an exit status are chosen nondeterministically.*)
(* log records every file-system and process step with its outcome.        *)

TexFile(eq) == <<eq.name, "tex">>
PdfFile(eq) == <<eq.name, "pdf">>
\* the .svg named after the .pdf file instead of the equation
SvgFileAfterPdf(eq) == <<eq.name, "pdf.svg">>

SvgFile(eq) == <<eq.name, "svg">>

Event(op, i, res) == [op |-> op, eq |-> i, res |-> res]

\* equations.iter().filter(|eq| eq.active).collect(), as indices of the slice
RECURSIVE FilterActive(_, _)
FilterActive(eqs, i) ==
    IF i > Len(eqs) THEN <<>>
    ELSE (IF eqs[i].active THEN <<i>> ELSE <<>>) \o FilterActive(eqs, i + 1)

\* the filter dropped: the bar and the loop run over every equation
AllEquations(eqs) == [i \in 1..Len(eqs) |-> i]

\* the active equations taken last to first
ActiveEquationsReversed(eqs) ==
    LET a == FilterActive(eqs, 1)
    IN  [k \in 1..Len(a) |-> a[Len(a) + 1 - k]]

ActiveEquations(eqs) == FilterActive(eqs, 1)

\* the skip check dropped: every equation goes through the pipeline
RenderEntryNoSkip(eq) == "prepare"

\* if !self.active { return Ok(()) }
RenderEntry(eq) == IF ~eq.active THEN "skip" ELSE "prepare"

\* a failed create_dir_all reported for the equation alone, not propagated
PrepareOutcomeDirIsolated(dirOk, writeOk) ==
    IF ~dirOk THEN "return_ok" ELSE IF ~writeOk THEN "err" ELSE "engine"

\* fs::create_dir_all(output_dir)?; fs::write(&tex_file_path, ..)?;
PrepareOutcome(dirOk, writeOk) ==
    IF ~dirOk THEN "err" ELSE IF ~writeOk THEN "err" ELSE "engine"

\* a non-zero exit of the engine propagated as an error
EngineOutcomeExitFatal(status) ==
    CASE status = "spawn_err" -> "err"
      [] status = "zero"      -> "convert"
      [] OTHER                -> "err"

\* the cleanup made whatever the exit status of the engine
EngineOutcomeAlwaysCleanup(status) ==
    CASE status = "spawn_err" -> "err"
      [] status = "zero"      -> "convert"
      [] OTHER                -> "cleanup"

\* .status()?; if status.success() { convert.. } else { eprintln!(..) }
EngineOutcome(status) ==
    CASE status = "spawn_err" -> "err"
      [] status = "zero"      -> "convert"
      [] OTHER                -> "return_ok"

\* the pdf_file.exists() check dropped
ConvertEntryNoPdfCheck(available, pdfExists) ==
    IF ~available THEN "cleanup" ELSE "rasterize"

\* the early returns of the conversion ending the pipeline before the cleanup
ConvertEntrySkipsCleanup(available, pdfExists) ==
    IF ~available THEN "return_ok"
    ELSE IF ~pdfExists THEN "return_ok"
    ELSE "rasterize"

\* if check.is_err() { return Ok(()) }  if !pdf_file.exists() { return Ok(()) }
ConvertEntry(available, pdfExists) ==
    IF ~available THEN "cleanup"
    ELSE IF ~pdfExists THEN "cleanup"
    ELSE "rasterize"

\* a non-zero exit of the rasterizer propagated as an error
RasterizeOutcomeExitFatal(status) ==
    IF status = "zero" THEN "cleanup" ELSE "err"

\* .status()?; success or eprintln!, then Ok(())
RasterizeOutcome(status) ==
    IF status = "spawn_err" THEN "err" ELSE "cleanup"

Current == batch[queue[idx]]

\* render_equations: lines 170-178, the filter and the progress bar
StartRenderEquations ==
    /\ pc = "start"
    /\ caller' = "render_equations"
    /\ queue' = ActiveEquations(batch)
    /\ bar' = [len |-> Len(ActiveEquations(batch)), pos |-> 0]
    /\ idx' = 1 /\ pc' = "call" /\ result' = "running"
    /\ UNCHANGED <<batch, outputDir, toolchain, delete_intermediates, log,
                   newVars, parseVars, viewVars>>

\* a caller invoking Equation::render on one equation of its own choice
StartDirectRender ==
    /\ pc = "start"
    /\ \E i \in 1..Len(batch) : queue' = <<i>>
    /\ caller' = "render"
    /\ idx' = 1 /\ pc' = "call" /\ result' = "running"
    /\ UNCHANGED <<batch, bar, outputDir, toolchain, delete_intermediates, log,
                   newVars, parseVars, viewVars>>

\* render returned Ok(()): bar.inc(1) and on to the next equation
ReturnOk ==
    /\ idx' = idx + 1
    /\ pc' = "call"
    /\ bar' = IF caller = "render_equations"
              THEN [bar EXCEPT !.pos = @ + 1] ELSE bar
    /\ UNCHANGED result

\* render returned Err: the ? of the caller propagates it
ReturnErr ==
    /\ result' = "err" /\ pc' = "done"
    /\ UNCHANGED <<idx, bar>>

Finish(outcome) ==
    CASE outcome = "err"       -> ReturnErr
      [] outcome = "return_ok" -> ReturnOk
      [] OTHER                 -> pc' = outcome /\ UNCHANGED <<idx, bar, result>>

\* the loop is exhausted: bar.finish_with_message, Ok(())
RenderingComplete ==
    /\ pc = "call" /\ idx > Len(queue)
    /\ result' = "ok" /\ pc' = "done"
    /\ UNCHANGED <<caller, batch, queue, idx, bar, outputDir, toolchain,
                   delete_intermediates, log, newVars, parseVars, viewVars>>

\* Equation::render, lines 44-54: skip check, create_dir_all, write of .tex
RenderPrepare ==
    /\ pc = "call" /\ idx <= Len(queue)
    /\ IF RenderEntry(Current) = "skip"
       THEN /\ ReturnOk
            /\ UNCHANGED <<outputDir, log>>
       ELSE \E writeOk \in BOOLEAN :
            LET dirOk   == outputDir.exists \/ outputDir.creatable
                outcome == PrepareOutcome(dirOk, writeOk)
                wrote   == dirOk /\ writeOk
            IN  /\ outputDir' =
                     [outputDir EXCEPT
                        !.exists = @ \/ dirOk,
                        !.files  = IF wrote THEN @ \cup {TexFile(Current)} ELSE @]
                /\ log' = log
                     \o <<Event("mkdir", queue[idx], IF dirOk THEN "ok" ELSE "err")>>
                     \o (IF dirOk
                         THEN <<Event("tex", queue[idx],
                                      IF writeOk THEN "ok" ELSE "err")>>
                         ELSE <<>>)
                /\ Finish(outcome)
    /\ UNCHANGED <<caller, batch, queue, toolchain, delete_intermediates,
                   newVars, parseVars, viewVars>>

\* lines 56-73: tectonic <tex> --outdir <dir>, run to completion
RunEngine ==
    /\ pc = "engine"
    /\ \E status \in {"spawn_err", "nonzero", "zero"}, pdfMade \in BOOLEAN :
        /\ pdfMade => status = "zero"
        /\ outputDir' = [outputDir EXCEPT
                !.files = IF pdfMade THEN @ \cup {PdfFile(Current)} ELSE @]
        /\ log' = Append(log, Event("engine", queue[idx], status))
        /\ Finish(EngineOutcome(status))
    /\ UNCHANGED <<caller, batch, queue, toolchain, delete_intermediates,
                   newVars, parseVars, viewVars>>

\* convert_pdf_to_svg, lines 79-92: pdftocairo -version, then pdf_file.exists()
ConvertProbe ==
    /\ pc = "convert"
    /\ log' = Append(log, Event("probe", queue[idx],
                IF toolchain.rasterizer THEN "present" ELSE "absent"))
    /\ Finish(ConvertEntry(toolchain.rasterizer,
                           PdfFile(Current) \in outputDir.files))
    /\ UNCHANGED <<caller, batch, queue, outputDir, toolchain,
                   delete_intermediates, newVars, parseVars, viewVars>>

\* convert_pdf_to_svg, lines 94-106: pdftocairo -svg <pdf> <svg>
RunRasterizer ==
    /\ pc = "rasterize"
    /\ \E status \in {"spawn_err", "nonzero", "zero"} :
        /\ outputDir' = [outputDir EXCEPT
                !.files = IF status = "zero" THEN @ \cup {SvgFile(Current)} ELSE @]
        /\ log' = Append(log, Event("rasterize", queue[idx], status))
        /\ Finish(RasterizeOutcome(status))
    /\ UNCHANGED <<caller, batch, queue, toolchain, delete_intermediates,
                   newVars, parseVars, viewVars>>

\* a failed fs::remove_file propagated with ? in place of .ok()
CleanupOutcomePropagated(texRemoved, pdfRemoved) ==
    IF texRemoved /\ pdfRemoved THEN "return_ok" ELSE "err"

\* fs::remove_file(..).ok(); fs::remove_file(..).ok(); Ok(())
CleanupOutcome(texRemoved, pdfRemoved) == "return_ok"

\* the outcomes of fs::remove_file(f): an absent file is never removed, the
\* removal of a present one may fail
Removals(f) == IF f \in outputDir.files THEN BOOLEAN ELSE {FALSE}

CleanupReport(texRemoved, pdfRemoved) ==
    CASE texRemoved /\ pdfRemoved  -> "removed_both"
      [] texRemoved /\ ~pdfRemoved -> "removed_tex"
      [] ~texRemoved /\ pdfRemoved -> "removed_pdf"
      [] OTHER                     -> "removed_none"

\* lines 68-70 and cleanup_intermediate_files, then Ok(())
Cleanup ==
    /\ pc = "cleanup"
    /\ IF delete_intermediates
       THEN \E texRemoved \in Removals(TexFile(Current)),
               pdfRemoved \in Removals(PdfFile(Current)) :
            /\ outputDir' = [outputDir EXCEPT
                    !.files = @ \ ((IF texRemoved THEN {TexFile(Current)} ELSE {})
                              \cup (IF pdfRemoved THEN {PdfFile(Current)} ELSE {}))]
            /\ log' = Append(log, Event("cleanup", queue[idx],
                                        CleanupReport(texRemoved, pdfRemoved)))
            /\ Finish(CleanupOutcome(texRemoved, pdfRemoved))
       ELSE /\ UNCHANGED <<outputDir, log>>
            /\ ReturnOk
    /\ UNCHANGED <<caller, batch, queue, toolchain, delete_intermediates,
                   newVars, parseVars, viewVars>>

-----------------------------------------------------------------------------
(* Inputs *)

BoundedSeq(S, n) == UNION {[1..k -> S] : k \in 0..n}

RECURSIVE Join(_, _)
Join(parts, sep) ==
    IF parts = <<>> THEN <<>>
    ELSE IF Len(parts) = 1 THEN parts[1]
    ELSE parts[1] \o sep \o Join(Tail(parts), sep)

RECURSIVE Concat(_)
Concat(parts) == IF parts = <<>> THEN <<>> ELSE Head(parts) \o Concat(Tail(parts))

\* Raw names given to Equation::new
NameAlphabet == {"a", "Z", "7", "_", ".", " ", "?", "-"}
RawNames     == BoundedSeq(NameAlphabet, MaxNameLen)
NewBodies    == {<<"x">>, <<" ", "x", "^", "2", " ">>}

\* CSV tables: a header line and up to MaxRows further lines
CsvNames == {<<"a">>, <<"a", "_", "1">>, <<"a", " ", "b">>, <<"a", "_", "b">>,
             <<" ">>, <<"?">>}
CsvRows ==
    {<<Yes, <<"x">>, n>> : n \in CsvNames}
    \cup {<< <<"Y", "E", "S", " ">>, <<" ", "x", " ">>, <<" ", "a">> >>,
          << No, <<"x">>, <<"a">> >>,
          << Yes, <<"x">> >>,
          << No, <<"x">>, <<"a">>, <<"z">> >>}
CsvHeaders == {<< <<"f">>, <<"e">>, <<"n">> >>, << Yes, <<"h">>, <<"a">> >>}
CsvFile(rows) == [i \in 1..Len(rows) |-> Join(rows[i], <<",">>)]
CsvSources ==
    {[kind |-> "csv", lines |-> <<>>, content |-> <<>>, blocks |-> <<>>]}
    \cup {[kind |-> "csv", lines |-> CsvFile(<<h>> \o rows),
           content |-> <<>>, blocks |-> <<>>] :
            h \in CsvHeaders, rows \in BoundedSeq(CsvRows, MaxRows)}

\* Markdown documents: up to MaxBlocks equation blocks, each
\*   [%%yes%%|%%no%% \n] $$ body $$ [\n %%name%%]  followed by gap
MdNames    == {<<"a", " ", "b">>, <<"a", "_", "b">>}
MdNameOpts == {[some |-> FALSE, val |-> <<>>]}
              \cup {[some |-> TRUE, val |-> n] : n \in MdNames}
MdBodies   == {<<" ", "x", "\n", "y", " ">>}
MdGaps     == {<<"\n">>, <<"\n", "t", "\n">>}
MdBlocks   == [lead : {"none", "yes", "no"}, name : MdNameOpts,
               body : MdBodies, gap : MdGaps]
MdBlockText(b) ==
    (CASE b.lead = "yes" -> PP \o Yes \o PP \o <<"\n">>
       [] b.lead = "no"  -> PP \o No \o PP \o <<"\n">>
       [] OTHER          -> <<>>)
    \o DD \o b.body \o DD
    \o (IF b.name.some THEN <<"\n">> \o PP \o b.name.val \o PP ELSE <<>>)
    \o b.gap
MdDocument(blocks) == Concat([i \in 1..Len(blocks) |-> MdBlockText(blocks[i])])
MdSources ==
    {[kind |-> "md", lines |-> <<>>, content |-> MdDocument(blocks),
      blocks |-> blocks] : blocks \in BoundedSeq(MdBlocks, MaxBlocks)}

-----------------------------------------------------------------------------
(* Specifications *)

IdleNew    == newArgs = [active |-> FALSE, name |-> <<>>, body |-> <<>>] /\ newEq = <<>>
IdleParse  == /\ source = [kind |-> "none", lines |-> <<>>, content |-> <<>>,
                           blocks |-> <<>>]
              /\ cursor = 0 /\ name_count = <<>> /\ equations = <<>>
              /\ bases = <<>> /\ parsePc = "idle"
IdleRender == /\ caller = "none" /\ batch = <<>> /\ queue = <<>> /\ idx = 0 /\ pc = "idle"
              /\ outputDir = [exists |-> FALSE, creatable |-> FALSE, files |-> {}]
              /\ toolchain = [rasterizer |-> FALSE]
              /\ delete_intermediates = FALSE
              /\ log = <<>> /\ result = "idle" /\ bar = [len |-> 0, pos |-> 0]

IdleView   == app = [phase |-> "idle"]

\* Equation::new(active, name, body)
NewCall ==
    /\ newEq = <<>>
    /\ newEq' = <<EquationNew(newArgs.active, newArgs.name, newArgs.body)>>
    /\ UNCHANGED <<newArgs, parseVars, renderVars, viewVars>>

InitNew ==
    /\ newArgs \in [active : BOOLEAN, name : RawNames, body : NewBodies]
    /\ newEq = <<>>
    /\ IdleParse /\ IdleRender /\ IdleView
NextNew == NewCall
SpecNew == InitNew /\ [][NextNew]_vars

InitParse ==
    /\ source \in CsvSources \cup MdSources
    /\ cursor = IF source.kind = "csv" THEN 2 ELSE 1
    /\ name_count = <<>> /\ equations = <<>> /\ bases = <<>>
    /\ parsePc = "run"
    /\ IdleNew /\ IdleRender /\ IdleView
NextParse == ParseCsvLine \/ ParseCsvReturn \/ ParseMdCapture \/ ParseMdReturn
SpecParse == InitParse /\ [][NextParse]_vars

-----------------------------------------------------------------------------
(* Properties of Equation::new (SpecNew) *)

\* The characters [A-Za-z0-9_.] of a file-system-safe name
SafeNameChars == Lower \cup Upper \cup Digit \cup {"_", "."}

NewReturned == newEq # <<>>
AllDisallowed(name) == \A i \in 1..Len(name) : name[i] \notin SafeNameChars
Underscores(n) == [i \in 1..n |-> "_"]

\* C2: for every raw name given to Equation::new the stored name is non-empty
\* and made of characters of [A-Za-z0-9_.] only, and active and body are
\* stored exactly as given.
C2_NameIsSafe ==
    NewReturned =>
        /\ newEq[1].name # <<>>
        /\ \A i \in 1..Len(newEq[1].name) : newEq[1].name[i] \in SafeNameChars
        /\ newEq[1].active = newArgs.active
        /\ newEq[1].body = newArgs.body

\* A raw name with two disallowed characters has been sanitized.
C2_Witness ==
    /\ NewReturned
    /\ Cardinality({i \in 1..Len(newArgs.name) :
                        newArgs.name[i] \notin SafeNameChars}) >= 2

\* C3 as stated: a raw name made only of disallowed characters, and the empty
\* raw name, both yield the fallback name "default_equation".
C3_AllDisallowedYieldsFallback ==
    (NewReturned /\ AllDisallowed(newArgs.name)) => newEq[1].name = DefaultName

\* C3 amended: the empty raw name yields the fallback name; a non-empty raw
\* name made only of disallowed characters yields one underscore per
\* character, which is not the fallback name.
C3_FallbackOnlyForEmpty ==
    NewReturned =>
        /\ newArgs.name = <<>> => newEq[1].name = DefaultName
        /\ (newArgs.name # <<>> /\ AllDisallowed(newArgs.name)) =>
                /\ newEq[1].name = Underscores(Len(newArgs.name))
                /\ newEq[1].name # DefaultName

\* "???" has been sanitized.
C3_Witness == NewReturned /\ newArgs.name = <<"?", "?", "?">>

-----------------------------------------------------------------------------
(* Properties of one parse pass (SpecParse) *)

ParseDone == parsePc = "done"

\* C1: the names of the equations of one returned batch are pairwise
\* distinct, so no two equations share their output paths.
C1_NamesPairwiseDistinct ==
    ParseDone =>
        \A i, j \in 1..Len(equations) :
            i # j => equations[i].name # equations[j].name

\* the number of equations up to the i-th whose base name is that of the i-th
Occurrence(i) == Cardinality({j \in 1..i : bases[j] = bases[i]})

\* C4: the first equation with base name b is named after b without a
\* suffix, the k-th (k >= 2) gets the suffix _(k-1), and only equations with
\* base name b advance the counter of b.
C4_SuffixCountsOwnBase ==
    /\ Len(bases) = Len(equations)
    /\ \A i \in 1..Len(equations) :
            equations[i].name =
                IF Occurrence(i) = 1
                THEN sanitize_filename(bases[i])
                ELSE sanitize_filename(
                        bases[i] \o <<"_">> \o FormatUsize(Occurrence(i) - 1))

\* A base name occurred, then another one, then the first again.
C4_Witness ==
    /\ ParseDone /\ Len(bases) = 3
    /\ bases[1] = bases[3] /\ bases[2] # bases[1]

\* C10: a document made of equation blocks yields one equation per block, in
\* order; equation i is inactive exactly when block i's own leading marker is
\* %%no%%, and its base name is block i's own trailing marker, or the fallback
\* name when block i has none.
C10_OneEquationPerBlock ==
    (ParseDone /\ source.kind = "md") =>
        /\ Len(equations) = Len(source.blocks)
        /\ \A i \in 1..Len(equations) :
                /\ equations[i].active = (source.blocks[i].lead # "no")
                /\ bases[i] = IF source.blocks[i].name.some
                              THEN source.blocks[i].name.val ELSE DefaultName

-----------------------------------------------------------------------------
(* The render specification *)

RenderNames == {<<"a">>, <<"b">>}
Batches     == BoundedSeq([active : BOOLEAN, name : RenderNames], MaxEqs)
OutputDirs  == {[exists |-> FALSE, creatable |-> FALSE, files |-> {}],
                [exists |-> FALSE, creatable |-> TRUE,  files |-> {}],
                [exists |-> TRUE,  creatable |-> TRUE,  files |-> {}]}

InitRender ==
    /\ batch \in Batches
    /\ outputDir \in OutputDirs
    /\ toolchain \in [rasterizer : BOOLEAN]
    /\ delete_intermediates \in BOOLEAN
    /\ caller = "none" /\ queue = <<>> /\ idx = 0 /\ pc = "start"
    /\ log = <<>> /\ result = "idle" /\ bar = [len |-> 0, pos |-> 0]
    /\ IdleNew /\ IdleParse /\ IdleView
NextRender ==
    \/ StartRenderEquations \/ StartDirectRender
    \/ RenderPrepare \/ RunEngine \/ ConvertProbe \/ RunRasterizer \/ Cleanup
    \/ RenderingComplete
SpecRender == InitRender /\ [][NextRender]_vars

-----------------------------------------------------------------------------
(* Properties of rendering (SpecRender) *)

LogIdx == 1..Len(log)
LogHas(op, i, res) == \E p \in LogIdx : log[p] = Event(op, i, res)
Attempted(op, i)   == \E p \in LogIdx : log[p].op = op /\ log[p].eq = i
RenderDone  == pc = "done"
InBatchRun  == caller = "render_equations"

\* the steps whose failure Equation::render propagates with ?
DirOrWriteFailure(e) ==
    \/ e.op = "mkdir" /\ e.res = "err"
    \/ e.op = "tex" /\ e.res = "err"
StartFailure(e) ==
    \/ e.op = "engine" /\ e.res = "spawn_err"
    \/ e.op = "rasterize" /\ e.res = "spawn_err"
Propagated(e) == DirOrWriteFailure(e) \/ StartFailure(e)

\* C5: a non-zero exit of the engine for one active equation does not abort
\* render_equations: an error result is always due to a later propagated
\* failure, never to that exit, and on success every later active equation
\* had its .tex written and the engine invoked.
C5_EngineExitIsolated ==
    InBatchRun =>
        \A p \in LogIdx :
            (log[p].op = "engine" /\ log[p].res = "nonzero") =>
                /\ result = "err" => \E q \in LogIdx : q > p /\ Propagated(log[q])
                /\ result = "ok" =>
                        \A k \in 1..Len(queue) :
                            queue[k] > log[p].eq =>
                                /\ LogHas("tex", queue[k], "ok")
                                /\ Attempted("engine", queue[k])

\* Three active equations, the engine failed for the first, the run succeeded.
C5_Witness ==
    /\ InBatchRun /\ RenderDone /\ result = "ok" /\ Len(queue) = 3
    /\ LogHas("engine", queue[1], "nonzero")
    /\ Attempted("engine", queue[2]) /\ Attempted("engine", queue[3])

\* C6 as stated: render_equations returns an error if and only if the output
\* directory could not be created or the .tex source could not be written.
C6_ErrorIffDirOrWrite ==
    (InBatchRun /\ RenderDone) =>
        (result = "err" <=> \E p \in LogIdx : DirOrWriteFailure(log[p]))

\* C6 amended: render_equations returns an error if and only if the output
\* directory could not be created, the .tex source could not be written, or
\* the engine or the rasterizer process could not be started; after any other
\* outcome the result is success and every active equation was processed.
C6_ErrorIffPropagated ==
    (InBatchRun /\ RenderDone) =>
        /\ result = "err" <=> \E p \in LogIdx : Propagated(log[p])
        /\ result = "ok" =>
                \A k \in 1..Len(queue) : Attempted("engine", queue[k])

\* The rasterizer failed for one equation, then the engine could not be
\* started for a later one.
C6_Witness ==
    /\ InBatchRun /\ RenderDone /\ result = "err"
    /\ \E p, q \in LogIdx :
            /\ p < q
            /\ log[p].op = "rasterize" /\ log[p].res = "nonzero"
            /\ log[q].op = "engine" /\ log[q].res = "spawn_err"

DirCannotBeCreated == ~outputDir.exists /\ ~outputDir.creatable
NothingProcessed ==
    /\ outputDir.files = {}
    /\ \A p \in LogIdx : log[p].op = "mkdir"

\* C7 as stated: with an output directory that cannot be created,
\* render_equations ends with an error and nothing was processed, whatever
\* the batch contains.
C7_AbortsWhateverBatch ==
    (InBatchRun /\ RenderDone /\ DirCannotBeCreated) =>
        result = "err" /\ NothingProcessed

\* C7 amended: with an output directory that cannot be created, no .tex is
\* written and no tool is invoked; render_equations ends with an error when
\* the batch has an active equation, and with success when it has none.
C7_AbortsIfAnyActive ==
    (InBatchRun /\ DirCannotBeCreated) =>
        /\ NothingProcessed
        /\ RenderDone =>
                (result = "err" <=> \E i \in 1..Len(batch) : batch[i].active)
        /\ result = "err" => log = <<Event("mkdir", queue[1], "err")>>

\* The run aborted on a batch with two active equations or more.
C7_Witness ==
    /\ InBatchRun /\ RenderDone /\ DirCannotBeCreated
    /\ result = "err" /\ Len(queue) >= 2

RenderingInactive ==
    pc = "call" /\ idx <= Len(queue) /\ ~batch[queue[idx]].active

\* C8: rendering an inactive equation returns success, leaves the output
\* directory as it was and invokes no process; no file-system or process step
\* is ever made for an inactive equation.
C8_InactiveIsNoOp ==
    [][ /\ \A p \in 1..Len(log') : batch[log'[p].eq].active
        /\ RenderingInactive =>
                outputDir' = outputDir /\ log' = log /\ result' # "err"
      ]_vars

\* Equation::render was called on an inactive equation and returned.
C8_Witness ==
    /\ caller = "render" /\ RenderDone /\ result = "ok"
    /\ ~batch[queue[1]].active

\* C9: pdftocairo -svg is invoked for an equation only when the engine exited
\* with status zero for it and its .pdf exists; after a non-zero exit of the
\* engine nothing of the conversion is invoked for that equation.
C9_ConvertOnlyAfterEngine ==
    /\ [][ (Len(log') > Len(log) /\ log'[Len(log')].op = "rasterize") =>
                /\ PdfFile(Current) \in outputDir.files
                /\ log'[Len(log')].eq = queue[idx]
                /\ Len(log) > 0 /\ log[Len(log)] = Event("probe", queue[idx], "present")
                /\ LogHas("engine", queue[idx], "zero")
         ]_vars
    /\ [](\A p \in LogIdx :
            (log[p].op = "engine" /\ log[p].res = "nonzero") =>
                /\ ~Attempted("probe", log[p].eq)
                /\ ~Attempted("rasterize", log[p].eq))

\* One equation was rasterized; for another the engine exited with zero but
\* left no PDF, and the conversion was not invoked.
C9_Witness ==
    /\ \E p \in LogIdx : log[p].op = "rasterize"
    /\ \E i \in 1..Len(batch) :
            /\ LogHas("engine", i, "zero") /\ LogHas("probe", i, "present")
            /\ ~Attempted("rasterize", i)
            /\ pc = "call" /\ idx > 1 /\ queue[idx - 1] = i

-----------------------------------------------------------------------------
(* Properties of read_csv_file (SpecParse) *)

Commas(line) == Cardinality({i \in 1..Len(line) : line[i] = ","})

\* the text of a line before its first comma
FirstField(line) ==
    SubSeq(line, 1,
           (CHOOSE i \in 1..(Len(line) + 1) :
                /\ i = Len(line) + 1 \/ line[i] = ","
                /\ \A j \in 1..(i - 1) : line[j] # ",") - 1)

Blank(c) == c \in {" ", "\t"}
\* the spellings of "yes" in any mix of cases
YesAnyCase == {<<y, e, s>> : y \in {"y", "Y"}, e \in {"e", "E"}, s \in {"s", "S"}}
\* f is a spelling of yes between blanks
SaysYes(f) ==
    \E a, b \in 1..Len(f) :
        /\ SubSeq(f, a, b) \in YesAnyCase
        /\ \A i \in 1..Len(f) : (i < a \/ i > b) => Blank(f[i])

\* the lines read so far that have three fields or more, the header excluded
RECURSIVE DataLines(_, _)
DataLines(lines, upto) ==
    IF upto < 2 THEN <<>>
    ELSE DataLines(lines, upto - 1)
         \o (IF Commas(lines[upto]) >= 2 THEN <<lines[upto]>> ELSE <<>>)

\* C11: read_csv_file yields, in row order, one equation for each non-header
\* line with at least three comma-separated fields and none for any other
\* line; an equation is active exactly when the first field of its line,
\* trimmed, is "yes" in any case.
C11_OneEquationPerDataLine ==
    source.kind = "csv" =>
        LET rows == DataLines(source.lines,
                              IF cursor - 1 <= Len(source.lines)
                              THEN cursor - 1 ELSE Len(source.lines))
        IN  /\ Len(equations) = Len(rows)
            /\ \A i \in 1..Len(rows) :
                    equations[i].active = SaysYes(FirstField(rows[i]))

\* A table whose header looks like a data row, with a two-field row and a
\* row whose flag is "YES " has been read.
C11_Witness ==
    /\ ParseDone /\ source.kind = "csv" /\ Len(source.lines) = 4
    /\ Commas(source.lines[1]) = 2 /\ SaysYes(FirstField(source.lines[1]))
    /\ \E i, j \in 2..4 :
            /\ Commas(source.lines[i]) = 1
            /\ FirstField(source.lines[j]) = <<"Y", "E", "S", " ">>
            /\ Commas(source.lines[j]) >= 2
    /\ Len(equations) = 2

-----------------------------------------------------------------------------
(* Properties of the availability check and of the cleanup (SpecRender) *)

Probes == {p \in LogIdx : log[p].op = "probe"}

\* C12: with pdftocairo absent, the availability check is made, and its
\* warning printed, once for the whole render_equations run.
C12_ProbedOncePerRun ==
    (InBatchRun /\ ~toolchain.rasterizer) => Cardinality(Probes) <= 1

\* the equation whose pipeline has just returned Ok
JustFinished == pc = "call" /\ idx > 1
Last == batch[queue[idx - 1]]
LastCleanup(reports) ==
    /\ log # <<>>
    /\ log[Len(log)].op = "cleanup" /\ log[Len(log)].eq = queue[idx - 1]
    /\ log[Len(log)].res \in reports

\* C13 as stated: with cleanup requested, once the pipeline of an active
\* equation has finished neither its .tex nor its .pdf remains, whatever the
\* outcome of the engine and rasterizer steps.
C13_NoIntermediateLeft ==
    (delete_intermediates /\ JustFinished /\ Last.active) =>
        /\ TexFile(Last) \notin outputDir.files
        /\ PdfFile(Last) \notin outputDir.files

\* C13 amended: with cleanup requested, after a pipeline whose engine exited
\* with zero the cleanup has run, and a .tex or .pdf that remains is one
\* whose deletion failed; after a non-zero exit of the engine no cleanup runs
\* and the .tex remains. No step ever deletes an .svg.
C13_CleanupAfterEngineSuccess ==
    /\ []((delete_intermediates /\ JustFinished /\ Last.active) =>
            /\ LogHas("engine", queue[idx - 1], "zero") =>
                    /\ LastCleanup({"removed_both", "removed_tex",
                                    "removed_pdf", "removed_none"})
                    /\ TexFile(Last) \in outputDir.files =>
                            LastCleanup({"removed_pdf", "removed_none"})
                    /\ PdfFile(Last) \in outputDir.files =>
                            LastCleanup({"removed_tex", "removed_none"})
            /\ LogHas("engine", queue[idx - 1], "nonzero") =>
                    /\ ~Attempted("cleanup", queue[idx - 1])
                    /\ TexFile(Last) \in outputDir.files)
    /\ [][\A f \in outputDir.files : f[2] = "svg" => f \in outputDir'.files]_vars

\* With cleanup requested, the rasterizer failed for one equation and both
\* its intermediate files were deleted; the engine failed for the next.
C13_Witness ==
    /\ delete_intermediates /\ JustFinished /\ idx = 3
    /\ LogHas("rasterize", queue[1], "nonzero")
    /\ LogHas("cleanup", queue[1], "removed_both")
    /\ LogHas("engine", queue[2], "nonzero")
    /\ batch[queue[1]].name # batch[queue[2]].name

\* C14: the cleanup never fails: whether the intermediate files are absent
\* or their deletion fails, the step after the conversion is the successful
\* return of render, as it is without cleanup.
C14_CleanupNeverFails ==
    [][pc = "cleanup" =>
            /\ pc' = "call" /\ idx' = idx + 1
            /\ result' = result /\ result' # "err"]_vars

\* A cleanup found the .pdf absent and failed to delete the .tex.
C14_Witness ==
    /\ JustFinished /\ LastCleanup({"removed_none"})
    /\ TexFile(Last) \in outputDir.files
    /\ PdfFile(Last) \notin outputDir.files

-----------------------------------------------------------------------------
(* Properties of the progress bar and of the order of steps (SpecRender) *)

InPipeline == pc \in {"engine", "convert", "rasterize", "cleanup"}

\* the equations whose pipeline made a step and has returned Ok
Completed ==
    {i \in {log[p].eq : p \in LogIdx} :
        /\ ~(InPipeline /\ i = queue[idx])
        /\ ~(result = "err" /\ i = log[Len(log)].eq)}

\* C15: the bar's total is the number of active equations; its position is
\* the number of pipelines completed so far, whatever their engine and
\* rasterizer steps did, never exceeds the total and equals it when
\* render_equations returns success.
C15_ProgressCountsCompleted ==
    InBatchRun =>
        /\ bar.len = Cardinality({i \in 1..Len(batch) : batch[i].active})
        /\ bar.pos = Cardinality(Completed)
        /\ bar.pos <= bar.len
        /\ result = "ok" => bar.pos = bar.len

\* A batch with an inactive equation is done: the engine failed for one
\* active equation, the rasterizer for the other, and the bar is at 2 of 2.
C15_Witness ==
    /\ InBatchRun /\ RenderDone /\ result = "ok"
    /\ Len(batch) = 3 /\ bar = [len |-> 2, pos |-> 2]
    /\ LogHas("engine", queue[1], "nonzero")
    /\ LogHas("rasterize", queue[2], "nonzero")

StepRank(op) ==
    CASE op = "mkdir" -> 1 [] op = "tex" -> 2 [] op = "engine" -> 3
      [] op = "probe" -> 4 [] op = "rasterize" -> 5 [] op = "cleanup" -> 6

\* C16: the steps of equation i all precede those of equation j for i < j,
\* and within one equation the steps come in the order write .tex, engine,
\* rasterizer, cleanup, each at most once.
C16_SequentialInOrder ==
    \A p, q \in LogIdx :
        p < q =>
            /\ log[p].eq <= log[q].eq
            /\ log[p].eq = log[q].eq => StepRank(log[p].op) < StepRank(log[q].op)

\* Two equations went through every step, one after the other.
C16_Witness ==
    /\ InBatchRun /\ RenderDone /\ Len(queue) >= 2
    /\ \A k \in 1..2 :
        \A op \in {"tex", "engine", "probe", "rasterize", "cleanup"} :
            Attempted(op, queue[k])

-----------------------------------------------------------------------------
(* Properties of repeated rendering and of the cleanup's condition (SpecRender) *)

\* every step made so far succeeded
AllStepsSucceeded ==
    \A p \in LogIdx : log[p].res \in {"ok", "zero", "present"}

\* C17: with delete_intermediates = false and both tools succeeding,
\* rendering the same active equation a second time into the same directory
\* leaves what the first rendering left: exactly its .tex, .pdf and .svg.
C17_RenderTwiceSameFiles ==
    ( /\ InBatchRun /\ ~delete_intermediates /\ JustFinished
      /\ \A i \in 1..Len(batch) : batch[i] = batch[1] /\ batch[i].active
      /\ AllStepsSucceeded
      /\ \A k \in 1..(idx - 1) : LogHas("rasterize", queue[k], "zero") )
    => outputDir.files = {<<batch[1].name, "tex">>, <<batch[1].name, "pdf">>,
                          <<batch[1].name, "svg">>}

\* The same equation has been rendered twice, every step succeeding.
C17_Witness ==
    /\ InBatchRun /\ ~delete_intermediates /\ pc = "call" /\ idx = 3
    /\ batch[1] = batch[2] /\ AllStepsSucceeded
    /\ LogHas("rasterize", 1, "zero") /\ LogHas("rasterize", 2, "zero")

\* C18 as stated: the cleanup runs for an equation only when its
\* rasterization succeeded.
C18_CleanupOnlyAfterRasterized ==
    \A i \in 1..Len(batch) :
        Attempted("cleanup", i) => LogHas("rasterize", i, "zero")

\* C18 amended: the cleanup runs for an equation exactly when it is
\* requested, the engine exited with zero and the conversion step returned
\* without a failure to start: also when the rasterizer was absent, found no
\* PDF or exited non-zero.
C18_CleanupAfterConversionReturned ==
    \A i \in 1..Len(batch) :
        /\ Attempted("cleanup", i) =>
                /\ delete_intermediates
                /\ LogHas("engine", i, "zero") /\ Attempted("probe", i)
                /\ ~LogHas("rasterize", i, "spawn_err")
        /\ (delete_intermediates /\ i \in Completed /\ LogHas("engine", i, "zero"))
                => Attempted("cleanup", i)

\* With cleanup requested the rasterizer exited non-zero, and the pipeline
\* left neither the .pdf nor an .svg.
C18_Witness ==
    /\ delete_intermediates /\ JustFinished
    /\ LogHas("rasterize", queue[idx - 1], "nonzero")
    /\ LastCleanup({"removed_both"})
    /\ PdfFile(Last) \notin outputDir.files
    /\ SvgFile(Last) \notin outputDir.files

-----------------------------------------------------------------------------
(* The terminal viewer: struct App, App::new and App::handle_input of      *)
(* src/src/main.rs.  The loop of main draws the frame when should_redraw   *)
(* asks for it and then handles one key: Draw is the first frame, and each *)
(* key action is handle_input followed by the draw it asked for.           *)
(*                                                                         *)
(* app.wrapped is a ghost: the handler that ran last wrapped a 16-bit      *)
(* addition.  The folder and the terminal are the environment: the content *)
(* read from a file and the failure of a read or of the terminal are       *)
(* chosen nondeterministically.                                            *)

U16 == 65536        \* scroll_offset and content_height are u16

Min(a, b)           == IF a <= b THEN a ELSE b
SaturatingSub(a, b) == IF a >= b THEN a - b ELSE 0

\* files_in_folder("./"): the entries found when the viewer starts
Files ==
    << [file_name |-> <<"n", ".", "m", "d">>],
       [file_name |-> <<"d", ".", "c", "s", "v">>],
       [file_name |-> <<"b", ".", "t", "x", "t">>] >>

\* the first line of the input field after an edit
Typed == {<<>>, <<" ", "n", ".", "m", "d", " ">>, <<"d", ".", "c", "s", "v">>,
          <<"b", ".", "t", "x", "t">>}

\* Path::extension: what follows the last dot, if the name has one that is
\* not its first character
Extension(name) ==
    IF \E i \in 2..Len(name) : name[i] = "."
    THEN LET d == CHOOSE i \in 2..Len(name) :
                    name[i] = "." /\ \A j \in (i+1)..Len(name) : name[j] # "."
         IN  SubSeq(name, d + 1, Len(name))
    ELSE <<>>

detect_file_type(name) ==
    CASE Extension(name) = <<"c", "s", "v">> -> "csv"
      [] Extension(name) \in {<<"m", "d">>,
                              <<"m","a","r","k","d","o","w","n">>} -> "markdown"
      [] OTHER -> "unknown"

\* What a file may hold when it is read: the characters of a Markdown
\* document, the lines of a CSV file, and for any other file the number of
\* lines of its text (all the viewer uses of it).
OnDisk(name) ==
    CASE detect_file_type(name) = "markdown" ->
            {[chars |-> MdDocument(<<[lead |-> "no", name |-> [some |-> FALSE, val |-> <<>>],
                                      body |-> <<" ", "x", "\n", "y", " ">>,
                                      gap |-> <<"\n">>]>>)],
             [chars |-> <<"t", "\n">>]}
      [] detect_file_type(name) = "csv" ->
            {[lines |-> CsvFile(<< <<Yes, <<"h">>, <<"a">> >>,
                                   <<Yes, <<"x">>, <<"a">> >> >>)],
             [lines |-> CsvFile(<< <<Yes, <<"h">>, <<"a">> >>,
                                   <<Yes, <<"x">> >> >>)]}
      [] OTHER -> {[nlines |-> 65535], [nlines |-> 65536]}

\* fs::read_to_string(&entry.full_path)
ReadToString(name) ==
    {[ok |-> FALSE]} \cup {[ok |-> TRUE, content |-> c] : c \in OnDisk(name)}

\* str::lines().count() of a cell: one more than its line feeds
CellHeight(s) == 1 + Cardinality({i \in DOMAIN s : s[i] = "\n"})

\* the rows of the table built from parse_markdown(content): the height of
\* each row is that of its equation body (names are sanitised to one line)
RECURSIVE MarkdownRows(_, _)
MarkdownRows(s, from) ==
    LET cap == NextCapture(s, from)
    IN  IF cap.ok THEN <<CellHeight(MdBody(cap))>> \o MarkdownRows(s, cap.end)
        ELSE <<>>

\* table.to_string().lines().count(): a border line, then each row followed
\* by a separator line
RECURSIVE TableLines(_)
TableLines(heights) ==
    IF heights = <<>> THEN 1
    ELSE Head(heights) + 1 + TableLines(Tail(heights))

\* Table::from_csv_file: every record becomes a row; records of unequal
\* length are an error
FromCsvFile(lines) ==
    IF \A i, j \in DOMAIN lines : Len(SplitComma(lines[i])) = Len(SplitComma(lines[j]))
    THEN [ok |-> TRUE, rows |-> [i \in DOMAIN lines |-> 1]]
    ELSE [ok |-> FALSE]

\* file_content: what is shown and the number of lines it has
NoContent        == [shown |-> "none", lines |-> 0]
Message(what)    == [shown |-> what, lines |-> 1]
Text(what, n)    == [shown |-> what, lines |-> n]

\* self.file_content = Some(..); self.scroll_offset = 0;
\* self.content_height = content.lines().count() as u16
Show(a, content) ==
    [a EXCEPT !.file_content = content, !.scroll_offset = 0,
              !.content_height = content.lines % U16]

\* self.file_content = Some(message), and nothing else
ShowMessage(a, what) == [a EXCEPT !.file_content = Message(what)]

\* the arms of match detect_file_type(..) after a successful read
Loaded(a, name, content) ==
    CASE detect_file_type(name) = "markdown" ->
            Show(a, Text("table", TableLines(<<1>> \o MarkdownRows(content.chars, 1))))
      [] detect_file_type(name) = "csv" ->
            LET table == FromCsvFile(content.lines)
            IN  IF table.ok THEN Show(a, Text("table", TableLines(table.rows)))
                ELSE ShowMessage(a, "Error reading csv file")
      [] detect_file_type(name) = "unknown" ->
            Show(a, Text("text", content.nlines))
      [] OTHER -> ShowMessage(a, "Error detecting file type")

\* validate: the trimmed first line names one of the files
validate(line) == \E i \in DOMAIN Files : Files[i].file_name = Trim(line)

\* App::new
AppNew ==
    [phase |-> "running", textarea |-> <<>>, is_valid |-> validate(<<>>),
     file_content |-> NoContent, scroll_offset |-> 0, should_redraw |-> TRUE,
     content_height |-> 0, wrapped |-> FALSE]

Running == app.phase = "running"

\* the state a handler starts from: the frame is drawn, the ghost cleared
Drawn == [app EXCEPT !.wrapped = FALSE]

\* if app.should_redraw { app.draw(..) } at the top of the loop
Redraw(a) == [a EXCEPT !.should_redraw = FALSE]

\* the frame drawn before the first key is read
Draw ==
    /\ Running /\ app.should_redraw
    /\ app' = Redraw(app)
    /\ UNCHANGED <<newVars, parseVars, renderVars>>

\* crossterm::event::read() is reached once the frame is drawn
Reading == Running /\ ~app.should_redraw

\* Key::Esc: handle_input returns true and main leaves the loop
KeyEsc ==
    /\ Reading
    /\ app' = [phase |-> "exited"]
    /\ UNCHANGED <<newVars, parseVars, renderVars>>

\* Key::Enter if self.is_valid
KeyEnter ==
    /\ Reading /\ app.is_valid
    /\ LET input == Trim(app.textarea)
       IN  IF \E i \in DOMAIN Files : Files[i].file_name = input
           THEN LET entry == Files[CHOOSE i \in DOMAIN Files :
                                /\ Files[i].file_name = input
                                /\ \A j \in 1..(i-1) : Files[j].file_name # input]
                IN  \E read \in ReadToString(entry.file_name) :
                        app' = Redraw([(IF read.ok
                                 THEN Loaded(Drawn, entry.file_name, read.content)
                                 ELSE ShowMessage(Drawn, "Error reading file"))
                                EXCEPT !.should_redraw = TRUE])
           ELSE app' = Redraw([ShowMessage(Drawn, "File not found!")
                               EXCEPT !.should_redraw = TRUE])
    /\ UNCHANGED <<newVars, parseVars, renderVars>>

\* Key::Up
KeyUp ==
    /\ Reading
    /\ app' = IF app.scroll_offset > 0
              THEN Redraw([Drawn EXCEPT !.scroll_offset = @ - 1,
                                        !.should_redraw = TRUE])
              ELSE Drawn
    /\ UNCHANGED <<newVars, parseVars, renderVars>>

\* Key::Down
KeyDown ==
    /\ Reading
    /\ app' = IF app.scroll_offset < SaturatingSub(app.content_height, 1)
              THEN Redraw([Drawn EXCEPT !.scroll_offset = @ + 1,
                                        !.should_redraw = TRUE])
              ELSE Drawn
    /\ UNCHANGED <<newVars, parseVars, renderVars>>

\* Key::PageUp
KeyPageUp ==
    /\ Reading
    /\ app' = Redraw([Drawn EXCEPT !.scroll_offset = SaturatingSub(@, 5),
                                   !.should_redraw = TRUE])
    /\ UNCHANGED <<newVars, parseVars, renderVars>>

\* Key::PageDown: self.scroll_offset + 5 is a u16 addition; past the width
\* it panics where overflow checks are compiled in and wraps where not
KeyPageDown ==
    /\ Reading
    /\ LET sum == app.scroll_offset + 5
       IN  IF sum < U16
           THEN app' = Redraw([Drawn EXCEPT
                          !.scroll_offset = Min(sum, SaturatingSub(app.content_height, 1)),
                          !.should_redraw = TRUE])
           ELSE \E checks \in BOOLEAN :
                  app' = IF checks THEN [phase |-> "panicked"]
                         ELSE Redraw([Drawn EXCEPT
                                 !.scroll_offset = Min(sum % U16,
                                                       SaturatingSub(app.content_height, 1)),
                                 !.should_redraw = TRUE, !.wrapped = TRUE])
    /\ UNCHANGED <<newVars, parseVars, renderVars>>

\* any other input, Enter on an invalid name included: the input field
\* takes it, and the name is validated again if the text changed
KeyOther ==
    /\ Reading
    /\ \E line \in Typed :
         app' = IF line # app.textarea
                THEN Redraw([Drawn EXCEPT !.textarea = line,
                                          !.is_valid = validate(line),
                                          !.should_redraw = TRUE])
                ELSE Drawn
    /\ UNCHANGED <<newVars, parseVars, renderVars>>

\* app.draw(..)? or crossterm::event::read()? fails: main returns the error
TerminalError ==
    /\ Reading
    /\ app' = [phase |-> "io_error"]
    /\ UNCHANGED <<newVars, parseVars, renderVars>>

InitView ==
    /\ app = AppNew
    /\ IdleNew /\ IdleParse /\ IdleRender
NextView ==
    \/ Draw \/ KeyEsc \/ KeyEnter \/ KeyUp \/ KeyDown \/ KeyPageUp \/ KeyPageDown
    \/ KeyOther \/ TerminalError
SpecView == InitView /\ [][NextView]_vars

-----------------------------------------------------------------------------
(* Properties of the viewer (SpecView) *)

\* C19: after any sequence of keys scroll_offset is at most
\* content_height - 1, and 0 when content_height is 0, and no key handler
\* overflows or underflows the 16-bit scroll_offset.
C19_ScrollWithinContent ==
    /\ app.phase # "panicked"
    /\ Running =>
        /\ ~app.wrapped
        /\ app.scroll_offset >= 0 /\ app.scroll_offset < U16
        /\ app.scroll_offset <= SaturatingSub(app.content_height, 1)

\* C20: whatever Enter last put on display, content_height is the number of
\* lines of the content shown (and scroll_offset lies within it).
C20_HeightMatchesContent ==
    (Running /\ app.file_content.shown # "none") =>
        /\ app.content_height = app.file_content.lines
        /\ app.scroll_offset <= SaturatingSub(app.file_content.lines, 1)
=============================================================================
